---- MODULE Spec2Model ----
(***************************************************************************)
(* Gateway session of interactions/api/gateway/client.py                   *)
(* (WebSocketClient): run(), the receive loop, _handle_stream, _reconnect, *)
(* the heartbeat task and _send_packet, as cooperating asyncio tasks.      *)
(*                                                                         *)
(* A task's pc names the await at which it is suspended.  Code between two *)
(* awaits runs atomically (asyncio is cooperative).  The remote Gateway    *)
(* and the transport are the environment: each receive() returns one of    *)
(* the messages the transport can deliver.                                 *)
(***************************************************************************)
EXTENDS Integers, Sequences, FiniteSets, TLC

(***************************************************************************)
(* Bounds of the model                                                     *)
(***************************************************************************)
\* transports opened over the run (run() opens 1, every reconnect one more)
MaxConn == 2
\* the sequence numbers carried by received frames (0: none)
Seqs == {0, 1, 2}

(***************************************************************************)
(* Tasks                                                                   *)
(***************************************************************************)
NoTask == 0
\* the heartbeat task created on transport c is task c
HbTasks == 1..MaxConn
\* the task running run() (with the _receive task it awaits)
MainT == MaxConn + 1
\* the application task calling _update_presence
AppT == MaxConn + 2
Tasks == HbTasks \cup {MainT, AppT}

(***************************************************************************)
(* Transport messages (aiohttp WSMessage) and Gateway frames               *)
(***************************************************************************)
CloseCodes == {1000, 1001, 4000, 4001}

\* payload shapes of a frame's "d":
\*   "hello"  a dict holding heartbeat_interval
\*   "obj"    a dict without heartbeat_interval
\*   "true"   a truthy scalar, "false" false / null
Msg(type, code, op, t, d, s) ==
    [type |-> type, code |-> code, op |-> op, t |-> t, d |-> d, s |-> s]

CloseMsg(c) == Msg("CLOSE", c, "-", "-", "-", 0)
ClosedMsg == Msg("CLOSED", 0, "-", "-", "-", 0)
ClosingMsg == Msg("CLOSING", 0, "-", "-", "-", 0)
\* a message whose data is not a str (BINARY, ERROR): decoded as None
BinaryMsg == Msg("BINARY", 0, "-", "-", "-", 0)
Frame(op, t, d, s) == Msg("TEXT", 0, op, t, d, s)

HelloFrame == Frame("HELLO", "-", "hello", 0)
\* a non-HELLO frame whose payload nevertheless holds heartbeat_interval
OddFrame == Frame("DISPATCH", "OTHER", "hello", 0)
ReadyFrame == Frame("DISPATCH", "READY", "obj", 1)
ResumedFrame == Frame("DISPATCH", "RESUMED", "obj", 0)
AckFrame == Frame("HEARTBEAT_ACK", "-", "false", 0)
HeartbeatFrame == Frame("HEARTBEAT", "-", "false", 0)
ReconnectFrame == Frame("RECONNECT", "-", "false", 0)
InvalidFrame(d) == Frame("INVALIDATE_SESSION", "-", d, 0)
EventFrame(s) == Frame("DISPATCH", "OTHER", "obj", s)

CloseClass == {CloseMsg(c) : c \in CloseCodes} \cup {ClosedMsg, ClosingMsg}

TextFrames ==
    {HelloFrame, OddFrame, ReadyFrame, ResumedFrame, AckFrame, HeartbeatFrame,
     ReconnectFrame, InvalidFrame("true"), InvalidFrame("false")}
    \cup {EventFrame(s) : s \in Seqs}

Messages == CloseClass \cup TextFrames \cup {BinaryMsg}

(***************************************************************************)
(* Exceptions                                                              *)
(***************************************************************************)
Exc(kind, code) == [kind |-> kind, code |-> code]
NoErr == Exc("none", 0)
\* LibraryException(packet.data)
LibErr(c) == Exc("LibraryException", c)
\* LibraryException(message=..., severity=50) of a forced read
ForceErr == Exc("LibraryException", 50)
AttrErr == Exc("AttributeError", 0)
TypeErr == Exc("TypeError", 0)
ConnErr == Exc("ClientConnectionError", 0)

VARIABLES
    client,       \* _client: 0 is None, else the id of the open transport
    opened,       \* number of transports opened so far
    closedEv,     \* __closed (the "usable" signal)
    readyEv,      \* ready
    readyDict,    \* _ready: "unset" (slot never assigned), "data", "empty"
    hbEvent,      \* __heartbeat_event
    ackEv,        \* __heartbeater.event: "clear", or set: what set it
    delay,        \* __heartbeater.delay: "unset", else the interval, named
                  \* by the opcode of the frame it was read from
    closingLock,  \* _closing_lock
    task,         \* _task: the heartbeat task, NoTask is None
    session_id,   \* 0 is None
    sequence,     \* 0 is None
    resume_url,   \* "None" or "resume"
    ws_url,       \* "None" or "gateway"
    started,      \* __started
    lockHolder,   \* reconnect_lock: the task holding it
    lockQ,        \* reconnect_lock: the tasks waiting, in order
    remaining,    \* _ratelimiter: permits left in the current window
    ts,           \* per task: pc and the frame of its _reconnect call
    rxConn,       \* the transport the pending receive() of run() was called on
    err,          \* per task: the exception that ended it
    sent,         \* the frame written last to a transport (NoFrame: none yet)
    cache,        \* _http.cache[model]: the Storage of the entity model
    guild,        \* the sub-collection of the cached Guild (a list)
    created,      \* the identifiers a create event was handled for
    emitted,      \* the last _dispatch_event call: its event and its dispatches
    msg,          \* run(): the event frame _receive returned, not yet handled
    nread,        \* the event frames the transport has delivered to run()
    log           \* the event frames handled, in the order of their handling

vars == <<client, opened, closedEv, readyEv, readyDict, hbEvent, ackEv, delay,
          closingLock, task, session_id, sequence, resume_url, ws_url, started,
          lockHolder, lockQ, remaining, ts, rxConn, err, sent, cache, guild,
          created, emitted, msg, nread, log>>

\* the state of the entity cache and of the Dispatcher
recVars == <<cache, guild, created, emitted, msg, nread, log>>

(***************************************************************************)
(* Pure decisions of the code                                              *)
(***************************************************************************)
\* (variant: the bound of the fatal range is excluded)
IsFatalCloseAbove(code) == code > 4000

\* __receive_packet: "if packet.data >= 4000" (the 4001 of the comment is
\* not excepted by the condition)
IsFatalClose(code) == code >= 4000

\* (variant: the comparison is inverted)
ToResumeInverted(code) == code = 1000

\* __receive_packet: "_reconnect(packet.data != 1000, packet.data)"
ToResume(code) == code # 1000

\* (variant: every frame goes through the rate limiter)
NeedsPermitAlways(op) == TRUE

\* _send_packet: 'if data["op"] != OpCodeType.HEARTBEAT.value'
NeedsPermit(op) == op # "HEARTBEAT"

\* _manage_heartbeat: "if not self.__heartbeater.event.is_set()"
AckMissing(ack) == ack = "clear"

\* __heartbeater.event.set() by the code named `by': a set flag stays as
\* it is
SetAck(ack, by) == IF ack = "clear" THEN by ELSE ack

\* _handle_stream: bool(data) of an INVALID_SESSION payload
Truthy(d) == d \in {"true", "obj", "hello"}

\* (variant: _reconnect always resumes)
HandshakeOpResume(resume) == "RESUME"

\* _reconnect: "if not to_resume: identify else: resume"
HandshakeOp(resume) == IF resume THEN "RESUME" ELSE "IDENTIFY"

\* _reconnect: the url handed to ws_connect
ReconnectUrl(resume) ==
    IF ~resume THEN (IF ws_url # "None" THEN ws_url ELSE "gateway")
    ELSE resume_url

\* run / _reconnect: data["d"]["heartbeat_interval"] of the first packet;
\* the opcode of the packet is not looked at
HelloInterval(m) ==
    IF m.type # "TEXT" THEN TypeErr           \* None["d"]
    ELSE IF m.d = "hello" THEN NoErr
    ELSE TypeErr     \* KeyError of a dict, TypeError of a scalar

\* (variant: a forced read waits out a CLOSING transport)
ForcedButClosing(type, force) == force /\ type # "CLOSING"

\* __receive_packet: "if ignore_lock: raise LibraryException(...)" of the
\* CLOSE, CLOSED and CLOSING branches
Forced(type, force) == force

\* (variant: a CLOSED transport always leads to a reconnect)
ClosedWaitsNever(closed) == FALSE

\* __receive_packet, CLOSED: "if not self.__closed.is_set()": wait for it
ClosedWaits(closed) == ~closed

Out(act, exc, resume, code, site) ==
    [act |-> act, exc |-> exc, resume |-> resume, code |-> code, site |-> site]

\* __receive_packet: what one received message leads to
\*   "raise" exc | "reconnect" (resume, code) | "wait" for __closed, then
\*   read again | "return" the decoded packet
ReceivePacket(m, force, closed) ==
    IF m.type = "CLOSE" THEN
        IF IsFatalClose(m.code) THEN Out("raise", LibErr(m.code), FALSE, 0, "-")
        ELSE IF Forced(m.type, force) THEN Out("raise", ForceErr, FALSE, 0, "-")
        ELSE Out("reconnect", NoErr, ToResume(m.code), m.code, "rx_close")
    ELSE IF m.type = "CLOSED" THEN
        IF Forced(m.type, force) THEN Out("raise", ForceErr, FALSE, 0, "-")
        ELSE IF ClosedWaits(closed) THEN Out("wait", NoErr, FALSE, 0, "-")
        ELSE Out("reconnect", NoErr, TRUE, 1012, "rx_closed")
    ELSE IF m.type = "CLOSING" THEN
        IF Forced(m.type, force) THEN Out("raise", ForceErr, FALSE, 0, "-")
        ELSE Out("wait", NoErr, FALSE, 0, "-")
    ELSE Out("return", NoErr, FALSE, 0, "-")

(***************************************************************************)
(* Task records                                                            *)
(***************************************************************************)
\* pc      the await the task is suspended at
\* resume, code, site, from   the _reconnect call the task is in: to_resume,
\*         code, the call site, and the transport the failure was seen on
\* waited  the call found reconnect_lock taken and queued for it
\* cancel  Task.cancel() was called on the running task itself: the
\*         CancelledError is thrown at its next suspension
\*         outside _reconnect site is "run", "hb" or "app"
TaskRec(pc, site) ==
    [pc |-> pc, resume |-> FALSE, code |-> 0, site |-> site, from |-> 0,
     waited |-> FALSE, cancel |-> FALSE]

RcPcs == {"rc_lock", "rc_close", "rc_connect", "rc_hello", "rc_rl", "rc_sent"}
EndPcs == {"done", "error", "cancelled"}

\* (variant: the stop signal is looked at between two reads only)
InReceiveTaskIdle(r) == r.pc = "rx_wait"

\* the pcs at which run() is inside its _receive task, waiting on
\* wait({__stopping, _receive})
InReceiveTask(r) ==
    \/ r.pc \in {"rx_wait", "rx_recv"}
    \/ r.pc \in RcPcs /\ r.site \in {"rx_close", "rx_closed"}

NoFrame ==
    [op |-> "-", conn |-> 0, site |-> "-", code |-> 0, from |-> 0,
     permit |-> FALSE, left |-> 0, d |-> 0]

\* (variant: a HEARTBEAT carries no sequence number)
HeartbeatDNone(op) == 0

\* "d" of a written frame: self.sequence, as it is when __heartbeat builds
\* the payload, for a HEARTBEAT (the payloads of the other frames are left
\* out)
HeartbeatD(op) == IF op = "HEARTBEAT" THEN sequence' ELSE 0

\* a written frame: its opcode and transport, the call it was written by
\* (site, code, from), whether a rate limiter permit was taken for it and
\* the permits that were left when _send_packet was entered
SentRec(b, t, op, permit) ==
    [op |-> op, conn |-> client, site |-> b[t].site, code |-> b[t].code,
     from |-> b[t].from, permit |-> permit, left |-> remaining,
     d |-> HeartbeatD(op)]

(***************************************************************************)
(* reconnect_lock (asyncio.Lock): first come, first served                 *)
(***************************************************************************)
\* the waiters still waiting (a cancelled waiter is skipped)
LiveQ(b) == SelectSeq(lockQ, LAMBDA x : b[x].pc = "rc_lock")

\* (variant: no lock, every caller enters the body at once)
LockFreeAlways(b) == TRUE

\* Lock.acquire returns at once: unlocked and no live waiter
LockFree(b) == lockHolder = NoTask /\ LiveQ(b) = <<>>

(***************************************************************************)
(* An exception leaves the task: "async with reconnect_lock" releases the  *)
(* lock; in a heartbeat task run_heartbeat catches it ("except Exception") *)
(* and sets _closing_lock; a CancelledError is not an Exception.           *)
(***************************************************************************)
\* (variant: the exception of a heartbeat task is logged only)
RaiseFromSwallowed(b, t, e) ==
    /\ ts' = [b EXCEPT ![t].pc = "error", ![t].cancel = FALSE]
    /\ err' = [err EXCEPT ![t] = e]
    /\ lockHolder' = IF lockHolder = t THEN NoTask ELSE lockHolder
    /\ closingLock' = closingLock

RaiseFrom(b, t, e) ==
    /\ ts' = [b EXCEPT ![t].pc = "error", ![t].cancel = FALSE]
    /\ err' = [err EXCEPT ![t] = e]
    /\ lockHolder' = IF lockHolder = t THEN NoTask ELSE lockHolder
    /\ closingLock' = (closingLock \/ t \in HbTasks)

\* a CancelledError leaves the task the same way, but it is no Exception:
\* run_heartbeat does not catch it
CancelledFrom(b, t) ==
    /\ ts' = [b EXCEPT ![t].pc = "cancelled", ![t].cancel = FALSE]
    /\ lockHolder' = IF lockHolder = t THEN NoTask ELSE lockHolder
    /\ UNCHANGED <<err, closingLock>>

(***************************************************************************)
(* _send_packet: block on the rate limiter unless the frame is a           *)
(* HEARTBEAT, then write to _client.  The caller is parked at rlpc while   *)
(* the limiter has no permit, else the frame is written and the caller is  *)
(* at sentpc.  Sets ts, remaining, sent, err, lockHolder, closingLock.     *)
(***************************************************************************)
\* WSRateLimit.block admits the caller
CanPass(op) == ~NeedsPermit(op) \/ remaining > 0

SendPacket(b, t, op, rlpc, sentpc) ==
    IF ~CanPass(op)
    THEN /\ ts' = [b EXCEPT ![t].pc = rlpc]
         /\ UNCHANGED <<remaining, sent, err, lockHolder, closingLock>>
    ELSE /\ remaining' = IF NeedsPermit(op) THEN remaining - 1 ELSE remaining
         /\ IF client = 0
            THEN RaiseFrom(b, t, AttrErr) /\ UNCHANGED sent
            ELSE /\ sent' = SentRec(b, t, op, NeedsPermit(op))
                 /\ ts' = [b EXCEPT ![t].pc = sentpc]
                 /\ UNCHANGED <<err, lockHolder, closingLock>>

(***************************************************************************)
(* _reconnect, entry: self._ready.clear() (_ready is the READY payload, a  *)
(* slot that is unassigned before the first READY), then the lock; with    *)
(* the lock free the body starts: __closed.clear(), _client.close().       *)
(* Sets ts, readyDict, closedEv, err, lockHolder, lockQ, closingLock.      *)
(***************************************************************************)
BodyPc == IF client # 0 THEN "rc_close" ELSE "rc_connect"

CallReconnect(b, t, resume, code, site, from) ==
    IF readyDict = "unset"
    THEN RaiseFrom(b, t, AttrErr) /\ UNCHANGED <<readyDict, closedEv, lockQ>>
    ELSE /\ readyDict' = "empty"
         /\ UNCHANGED <<err, closingLock>>
         /\ IF LockFree(b)
            THEN /\ lockHolder' = t
                 /\ lockQ' = <<>>
                 /\ closedEv' = FALSE
                 /\ ts' = [b EXCEPT ![t] =
                        [pc |-> BodyPc, resume |-> resume, code |-> code,
                         site |-> site, from |-> from, waited |-> FALSE,
                         cancel |-> b[t].cancel]]
            ELSE /\ lockQ' = Append(LiveQ(b), t)
                 /\ lockHolder' = lockHolder
                 /\ closedEv' = closedEv
                 /\ ts' = [b EXCEPT ![t] =
                        [pc |-> "rc_lock", resume |-> resume, code |-> code,
                         site |-> site, from |-> from, waited |-> TRUE,
                         cancel |-> b[t].cancel]]

(***************************************************************************)
(* _dispatch_event(event, data): decoded entities and their Storage         *)
(***************************************************************************)
\* the identifiers carried by the events
Ids == {1, 2}
\* the values of the two fields of an entity; "-" is a field that the
\* payload of an event does not carry
Names == {"a", "b"}
Topics == {"x", "-"}
\* the entries a guild's sub-collection holds at most
MaxList == 2

Obj(id, name, topic) == [id |-> id, name |-> name, topic |-> topic]
\* None, and an argument that is not passed
NoObj == Obj(0, "None", "-")
NoArg == Obj(0, "NoArg", "-")

\* CHANNEL_CREATE, CHANNEL_UPDATE and CHANNEL_DELETE with their payload;
\* guild_id 0 is a payload without guild_id.  The events of entity 1 carry
\* any fields, those of entity 2 always the same
Ops == {"create", "update", "delete"}
Events ==
    {ev \in [op : Ops, id : Ids, guild_id : {0, 1}, name : Names,
             topic : Topics] :
        ev.id = 2 => (ev.name = "a" /\ ev.topic = "-")}

\* obj = model(**data)
Decode(ev) == Obj(ev.id, ev.name, ev.topic)

\* Storage.get(id): the item, or None
StorageGet(c, id) == c[id]

\* Storage.add(item, id)
StorageAdd(c, id, item) == [c EXCEPT ![id] = item]

\* Model.update(**kwargs): the fields given replace those of the object
ObjUpdate(old, new) ==
    Obj(old.id,
        IF new.name # "-" THEN new.name ELSE old.name,
        IF new.topic # "-" THEN new.topic ELSE old.topic)

\* Storage.merge(item, id): add the item, or merge it into the stored one
StorageMerge(c, id, item) ==
    IF c[id] = NoObj THEN StorageAdd(c, id, item)
    ELSE [c EXCEPT ![id] = ObjUpdate(c[id], item)]

\* Storage.pop(id): the storage without the item (the item popped, or
\* None, is StorageGet(c, id))
StoragePop(c, id) == [c EXCEPT ![id] = NoObj]

\* (variant: no identifier counts)
HasIdNever(id) == FALSE

\* "if id:" of the create and the delete branch
HasId(id) == id # 0

\* update branch: "before = model(**old_obj._json)" of a cached old_obj,
\* else "before = None"
BeforeOf(old_obj) == IF old_obj # NoObj THEN old_obj ELSE NoObj

\* (variant: the new object replaces the cached one)
AfterReplaced(old_obj, obj) == obj

\* update branch: "old_obj.update(**obj._json)" of a cached old_obj, else
\* "old_obj = obj"
AfterOf(old_obj, obj) ==
    IF old_obj # NoObj THEN ObjUpdate(old_obj, obj) ELSE obj

\* the index of the first entry of the list with that id, 0 without one
RECURSIVE IndexFrom(_, _, _)
IndexFrom(list, id, i) ==
    IF i > Len(list) THEN 0
    ELSE IF list[i].id = id THEN i
    ELSE IndexFrom(list, id, i + 1)

RemoveAt(list, i) == SubSeq(list, 1, i - 1) \o SubSeq(list, i + 1, Len(list))

\* __modify_guild_cache() on the sub-collection of the cached guild
ModifyGuildCache(list, ev, obj) ==
    IF ev.guild_id = 0 THEN list
    ELSE LET _obj == IF ev.op = "create" THEN Append(list, obj) ELSE list
             index == IndexFrom(_obj, obj.id, 1)
         IN IF index = 0 THEN _obj
            ELSE IF ev.op = "delete" THEN RemoveAt(_obj, index)
            ELSE IF ev.op = "update" THEN [_obj EXCEPT ![index] = obj]
            ELSE _obj

\* self._dispatch.dispatch(name, a, b)
Emit(name, a, b) == [name |-> name, a |-> a, b |-> b]

\* the event of the k-th event frame of a session: the create of an entity,
\* then updates that rename it in turn
StreamEvent(k) ==
    [op |-> IF k = 1 THEN "create" ELSE "update", id |-> 1, guild_id |-> 0,
     name |-> IF k % 2 = 1 THEN "a" ELSE "b", topic |-> "-"]

MaxFrames == 2

\* an event frame as _receive returns it: the k-th event frame the transport
\* delivered, the transport it was read from, its event
Received(k, conn, ev) == [k |-> k, conn |-> conn, ev |-> ev]

\* run() holds no frame
NoMsg ==
    Received(0, 0, [op |-> "-", id |-> 0, guild_id |-> 0, name |-> "-",
                    topic |-> "-"])

\* (variant: the handling is not awaited, the loop goes on to its next read)
AfterReadDetached(b, t) == [b EXCEPT ![t].pc = "rx_wait"]

\* "msg = await _receive; await self._handle_stream(msg)"
AfterRead(b, t) == [b EXCEPT ![t].pc = "hs_event"]

(***************************************************************************)
(* The rate limiter (WSRateLimit): RateMax sends per window                *)
(***************************************************************************)
RateMax == 2

\* the session object after __init__, nothing dispatched yet
InitSession ==
    /\ client = 0
    /\ opened = 0
    /\ closedEv = FALSE
    /\ readyEv = FALSE
    /\ readyDict = "unset"
    /\ hbEvent = FALSE
    /\ ackEv = "clear"
    /\ delay = "unset"
    /\ closingLock = FALSE
    /\ task = NoTask
    /\ session_id = 0
    /\ sequence = 0
    /\ resume_url = "None"
    /\ ws_url = "None"
    /\ started = FALSE
    /\ lockHolder = NoTask
    /\ lockQ = <<>>
    /\ remaining = RateMax
    /\ ts = [t \in Tasks |->
               IF t = MainT THEN TaskRec("run_connect", "run")
               ELSE IF t = AppT THEN TaskRec("idle", "app")
               ELSE TaskRec("unborn", "hb")]
    /\ rxConn = 0
    /\ err = [t \in Tasks |-> NoErr]
    /\ sent = NoFrame
    /\ created = {}
    /\ emitted = <<>>
    /\ msg = NoMsg
    /\ nread = 0
    /\ log = <<>>

\* the cache of one entity model and the sub-collection of its guild
Init ==
    /\ InitSession
    /\ cache = [i \in Ids |-> NoObj]
    /\ guild = <<>>

(***************************************************************************)
(* run()                                                                   *)
(***************************************************************************)
\* url = get_gateway(); ws_url = url; _client = ws_connect(url)
RunConnect ==
    /\ ts[MainT].pc = "run_connect"
    /\ UNCHANGED recVars
    /\ opened < MaxConn
    /\ ws_url' = "gateway"
    /\ opened' = opened + 1
    /\ client' = opened + 1
    /\ ts' = [ts EXCEPT ![MainT].pc = "run_hello"]
    /\ UNCHANGED <<closedEv, readyEv, readyDict, hbEvent, ackEv, delay,
                   closingLock, task, session_id, sequence, resume_url,
                   started, lockHolder, lockQ, remaining, rxConn, err, sent>>

\* the new heartbeat task of transport c, created by create_task
Spawn(b, c) == [b EXCEPT ![c] = TaskRec("hb_new", "hb")]

\* data = __receive_packet(True); delay = data["d"]["heartbeat_interval"];
\* _task = create_task(run_heartbeat()); __identify()
RunHello(m) ==
    /\ ts[MainT].pc = "run_hello"
    /\ UNCHANGED recVars
    /\ LET out == ReceivePacket(m, TRUE, closedEv)
           bad == IF out.act = "raise" THEN out.exc ELSE HelloInterval(m)
       IN IF bad # NoErr
          THEN /\ RaiseFrom(ts, MainT, bad)
               /\ UNCHANGED <<delay, task, remaining, sent>>
          ELSE /\ delay' = m.op
               /\ task' = client
               /\ SendPacket(Spawn(ts, client), MainT, "IDENTIFY",
                             "run_rl", "run_sent")
    /\ UNCHANGED <<client, opened, closedEv, readyEv, readyDict, hbEvent,
                   ackEv, session_id, sequence, resume_url, ws_url, started,
                   lockQ, rxConn>>

\* _send_packet of __identify, once the rate limiter admits it
RunRl ==
    /\ ts[MainT].pc = "run_rl"
    /\ UNCHANGED recVars
    /\ CanPass("IDENTIFY")
    /\ SendPacket(ts, MainT, "IDENTIFY", "run_rl", "run_sent")
    /\ UNCHANGED <<client, opened, closedEv, readyEv, readyDict, hbEvent,
                   ackEv, delay, task, session_id, sequence, resume_url,
                   ws_url, started, lockQ, rxConn>>

\* __closed.set(); __heartbeater.event.set(); into the receive loop
RunSent ==
    /\ ts[MainT].pc = "run_sent"
    /\ UNCHANGED recVars
    /\ closedEv' = TRUE
    /\ ackEv' = SetAck(ackEv, "run")
    /\ ts' = [ts EXCEPT ![MainT].pc = "rx_wait"]
    /\ UNCHANGED <<client, opened, readyEv, readyDict, hbEvent, delay,
                   closingLock, task, session_id, sequence, resume_url,
                   ws_url, started, lockHolder, lockQ, remaining, rxConn, err,
                   sent>>

\* run(): _closing_lock is set while _receive is pending:
\* _receive.cancel(); return
Stop ==
    /\ UNCHANGED recVars
    /\ InReceiveTask(ts[MainT])
    /\ closingLock
    /\ ts' = [ts EXCEPT ![MainT].pc = "done"]
    /\ lockHolder' = IF lockHolder = MainT THEN NoTask ELSE lockHolder
    /\ UNCHANGED <<client, opened, closedEv, readyEv, readyDict, hbEvent,
                   ackEv, delay, closingLock, task, session_id, sequence,
                   resume_url, ws_url, started, lockQ, remaining, rxConn, err,
                   sent>>

(***************************************************************************)
(* __receive_packet() of the receive loop                                  *)
(***************************************************************************)
\* await __closed.wait(); the receive() that follows is on _client
RxPass ==
    /\ ts[MainT].pc = "rx_wait"
    /\ UNCHANGED recVars
    /\ closedEv
    /\ rxConn' = client
    /\ ts' = [ts EXCEPT ![MainT].pc = "rx_recv"]
    /\ UNCHANGED <<client, opened, closedEv, readyEv, readyDict, hbEvent,
                   ackEv, delay, closingLock, task, session_id, sequence,
                   resume_url, ws_url, started, lockHolder, lockQ, remaining,
                   err, sent>>

\* what a transport can deliver to a pending receive(): anything while it
\* is the open transport, only its closing once _reconnect has replaced it
RxMsgs(c) == IF c = client THEN Messages ELSE CloseClass

\* packet = receive(): a close-class message, or a message that is not text
RxControl(m) ==
    /\ ts[MainT].pc = "rx_recv"
    /\ UNCHANGED recVars
    /\ m \in RxMsgs(rxConn)
    /\ m.type # "TEXT"
    /\ LET out == ReceivePacket(m, FALSE, closedEv)
       IN CASE out.act = "raise" ->
                 /\ RaiseFrom(ts, MainT, out.exc)
                 /\ UNCHANGED <<readyDict, closedEv, lockQ>>
            [] out.act = "reconnect" ->
                 CallReconnect(ts, MainT, out.resume, out.code, out.site,
                               rxConn)
            [] out.act = "wait" ->
                 /\ ts' = [ts EXCEPT ![MainT].pc = "rx_wait"]
                 /\ UNCHANGED <<readyDict, closedEv, err, lockHolder, lockQ,
                                closingLock>>
            [] OTHER ->
                 \* None is returned: _handle_stream(None) has no .get
                 /\ RaiseFrom(ts, MainT, AttrErr)
                 /\ UNCHANGED <<readyDict, closedEv, lockQ>>
    /\ UNCHANGED <<client, opened, readyEv, hbEvent, ackEv, delay, task,
                   session_id, sequence, resume_url, ws_url, started,
                   remaining, rxConn, sent>>

(***************************************************************************)
(* _handle_stream(msg) of a decoded frame                                  *)
(***************************************************************************)
\* "if seq: self.sequence = seq"
NewSequence(m) == IF m.s # 0 THEN m.s ELSE sequence

BackToLoop == [ts EXCEPT ![MainT].pc = "rx_wait"]

\* the handler, but for what it hands to the dispatcher
HandleStream(m) ==
    /\ ts[MainT].pc = "rx_recv"
    /\ m \in RxMsgs(rxConn)
    /\ m.type = "TEXT"
    /\ sequence' = NewSequence(m)
    /\ CASE m.op = "HEARTBEAT" ->
              /\ SendPacket(ts, MainT, "HEARTBEAT", "hs_rl", "rx_wait")
              /\ UNCHANGED <<readyDict, closedEv, lockQ, ackEv, readyEv,
                             session_id, resume_url, started>>
         [] m.op = "HEARTBEAT_ACK" ->
              /\ ackEv' = SetAck(ackEv, "HEARTBEAT_ACK")
              /\ ts' = BackToLoop
              /\ UNCHANGED <<readyDict, closedEv, err, lockHolder, lockQ,
                             closingLock, remaining, sent, readyEv,
                             session_id, resume_url, started>>
         [] m.op = "INVALIDATE_SESSION" ->
              /\ readyEv' = FALSE
              /\ CallReconnect(ts, MainT, Truthy(m.d), 1012, "hs_invalid",
                               rxConn)
              /\ UNCHANGED <<remaining, sent, ackEv, session_id, resume_url,
                             started>>
         [] m.op = "RECONNECT" ->
              /\ CallReconnect(ts, MainT, TRUE, 1012, "hs_reconnect", rxConn)
              /\ UNCHANGED <<remaining, sent, ackEv, readyEv, session_id,
                             resume_url, started>>
         [] m.op = "DISPATCH" /\ m.t = "READY" ->
              /\ readyEv' = TRUE
              /\ readyDict' = "data"
              /\ session_id' = rxConn
              /\ resume_url' = "resume"
              /\ started' = TRUE
              /\ ts' = BackToLoop
              /\ UNCHANGED <<closedEv, err, lockHolder, lockQ, closingLock,
                             remaining, sent, ackEv>>
         [] OTHER ->
              \* HELLO, RESUMED, or an event handed to _dispatch_event
              /\ ts' = BackToLoop
              /\ UNCHANGED <<readyDict, closedEv, err, lockHolder, lockQ,
                             closingLock, remaining, sent, ackEv, readyEv,
                             session_id, resume_url, started>>
    /\ UNCHANGED <<client, opened, hbEvent, delay, task, ws_url, rxConn>>

\* the handler seen from the session: the listeners' side is left out
RxFrame(m) == HandleStream(m) /\ UNCHANGED recVars

\* (variant: on_start is dispatched at every READY)
ReadyDispatchesAlways(first) ==
    <<Emit("on_ready", NoArg, NoArg), Emit("on_start", NoArg, NoArg)>>

\* READY: dispatch("on_ready"), and dispatch("on_start") "if not
\* self.__started"
ReadyDispatches(first) ==
    <<Emit("on_ready", NoArg, NoArg)>>
        \o IF first THEN <<Emit("on_start", NoArg, NoArg)>> ELSE <<>>

IsReady(m) == m.op = "DISPATCH" /\ m.t = "READY"

\* the handler of a frame that is not an event for _dispatch_event, with
\* the names it dispatches: emitted holds those of the frame handled last
RxSession(m) ==
    /\ m.op = "DISPATCH" => m.t \in {"READY", "RESUMED"}
    /\ HandleStream(m)
    /\ emitted' = IF IsReady(m) THEN ReadyDispatches(~started) ELSE <<>>
    /\ UNCHANGED <<cache, guild, created, msg, nread, log>>

(***************************************************************************)
(* _reconnect(to_resume, code), the body under reconnect_lock              *)
(***************************************************************************)
Reconnectors == HbTasks \cup {MainT}

\* the lock is handed to the first waiter: __closed.clear(), then
\* _client.close(code) if there is a transport
RcAcquired(t) ==
    /\ ts[t].pc = "rc_lock"
    /\ UNCHANGED recVars
    /\ lockHolder = NoTask
    /\ Head(LiveQ(ts)) = t
    /\ lockHolder' = t
    /\ lockQ' = Tail(LiveQ(ts))
    /\ closedEv' = FALSE
    /\ ts' = [ts EXCEPT ![t].pc = BodyPc]
    /\ UNCHANGED <<client, opened, readyEv, readyDict, hbEvent, ackEv, delay,
                   closingLock, task, session_id, sequence, resume_url,
                   ws_url, started, remaining, rxConn, err, sent>>

\* _client.close(code) returned: _client = None; ws_connect(url) is awaited
RcClosed(t) ==
    /\ ts[t].pc = "rc_close"
    /\ UNCHANGED recVars
    /\ client' = 0
    /\ ts' = [ts EXCEPT ![t].pc = "rc_connect"]
    /\ UNCHANGED <<opened, closedEv, readyEv, readyDict, hbEvent, ackEv,
                   delay, closingLock, task, session_id, sequence, resume_url,
                   ws_url, started, lockHolder, lockQ, remaining, rxConn, err,
                   sent>>

\* _client = ws_connect(url)
RcConnect(t) ==
    /\ ts[t].pc = "rc_connect"
    /\ UNCHANGED recVars
    /\ opened < MaxConn
    /\ IF ReconnectUrl(ts[t].resume) = "None"
       THEN /\ RaiseFrom(ts, t, TypeErr)
            /\ UNCHANGED <<client, opened>>
       ELSE /\ opened' = opened + 1
            /\ client' = opened + 1
            /\ ts' = [ts EXCEPT ![t].pc = "rc_hello"]
            /\ UNCHANGED <<err, lockHolder, closingLock>>
    /\ UNCHANGED <<closedEv, readyEv, readyDict, hbEvent, ackEv, delay, task,
                   session_id, sequence, resume_url, ws_url, started, lockQ,
                   remaining, rxConn, sent>>

\* ws_connect fails (run or _reconnect): the exception leaves the task
ConnectFail(t) ==
    /\ ts[t].pc \in {"run_connect", "rc_connect"}
    /\ UNCHANGED recVars
    /\ RaiseFrom(ts, t, ConnErr)
    /\ UNCHANGED <<client, opened, closedEv, readyEv, readyDict, hbEvent,
                   ackEv, delay, task, session_id, sequence, resume_url,
                   ws_url, started, lockQ, remaining, rxConn, sent>>

\* "if self._task: self._task.cancel()": another task is suspended and
\* ends at once; the running task itself gets the CancelledError at its
\* next suspension
CancelTask(b, t) ==
    IF task = NoTask THEN b
    ELSE IF task = t THEN [b EXCEPT ![t].cancel = TRUE]
    ELSE IF b[task].pc \in (EndPcs \cup {"unborn"}) THEN b
    ELSE [b EXCEPT ![task].pc = "cancelled"]

\* data = __receive_packet(True); delay = ...; cancel and respawn the
\* heartbeat task; __identify() or __resume()
RcHello(t, m) ==
    /\ ts[t].pc = "rc_hello"
    /\ UNCHANGED recVars
    /\ LET out == ReceivePacket(m, TRUE, closedEv)
           bad == IF out.act = "raise" THEN out.exc ELSE HelloInterval(m)
       IN IF bad # NoErr
          THEN /\ RaiseFrom(ts, t, bad)
               /\ UNCHANGED <<delay, task, hbEvent, remaining, sent>>
          ELSE /\ delay' = m.op
               /\ IF task # NoTask
                  THEN /\ task' = client
                       /\ hbEvent' = FALSE
                       /\ SendPacket(Spawn(CancelTask(ts, t), client), t,
                                     HandshakeOp(ts[t].resume),
                                     "rc_rl", "rc_sent")
                  ELSE /\ UNCHANGED <<task, hbEvent>>
                       /\ SendPacket(ts, t, HandshakeOp(ts[t].resume),
                                     "rc_rl", "rc_sent")
    /\ UNCHANGED <<client, opened, closedEv, readyEv, readyDict, ackEv,
                   session_id, sequence, resume_url, ws_url, started, lockQ,
                   rxConn>>

\* the same in the heartbeat task that is _task, when nothing on the way
\* suspends it: the CancelledError of its own cancel() is thrown at its next
\* suspension only, so it writes the RESUME, sets __closed and
\* __heartbeat_event, leaves the lock and, back in _manage_heartbeat, clears
\* the ack flag and writes a HEARTBEAT; the wait_for(...) that follows
\* suspends it, which ends it
RcHelloThrough(t, m) ==
    /\ ts[t].pc = "rc_hello"
    /\ UNCHANGED recVars
    /\ task = t
    /\ ReceivePacket(m, TRUE, closedEv).act # "raise"
    /\ HelloInterval(m) = NoErr
    /\ CanPass(HandshakeOp(ts[t].resume))
    /\ delay' = m.op
    /\ task' = client
    /\ remaining' = IF NeedsPermit(HandshakeOp(ts[t].resume))
                    THEN remaining - 1 ELSE remaining
    /\ closedEv' = TRUE
    /\ hbEvent' = TRUE
    /\ lockHolder' = NoTask
    /\ ackEv' = "clear"
    /\ sequence' = sequence
    /\ sent' = [SentRec(ts, t, "HEARTBEAT", FALSE) EXCEPT !.site = "hb"]
    /\ ts' = [Spawn(ts, client) EXCEPT ![t] = TaskRec("cancelled", "hb")]
    /\ UNCHANGED <<client, opened, readyEv, readyDict, closingLock,
                   session_id, resume_url, ws_url, started, lockQ, rxConn,
                   err>>

\* _send_packet of __identify / __resume, once the rate limiter admits it
RcRl(t) ==
    /\ ts[t].pc = "rc_rl"
    /\ UNCHANGED recVars
    /\ ~ts[t].cancel
    /\ CanPass(HandshakeOp(ts[t].resume))
    /\ SendPacket(ts, t, HandshakeOp(ts[t].resume), "rc_rl", "rc_sent")
    /\ UNCHANGED <<client, opened, closedEv, readyEv, readyDict, hbEvent,
                   ackEv, delay, task, session_id, sequence, resume_url,
                   ws_url, started, lockQ, rxConn>>

\* a task that cancelled itself was suspended (in the rate limiter, or in
\* send_str when the transport's buffer is full): CancelledError
RcCancelled(t) ==
    /\ ts[t].pc \in {"rc_rl", "rc_sent"}
    /\ UNCHANGED recVars
    /\ ts[t].cancel
    /\ CancelledFrom(ts, t)
    /\ UNCHANGED <<client, opened, closedEv, readyEv, readyDict, hbEvent,
                   ackEv, delay, task, session_id, sequence, resume_url,
                   ws_url, started, lockQ, remaining, rxConn, sent>>

\* the frame is written: __closed.set(); __heartbeat_event.set(); the lock
\* is released and _reconnect returns to its caller.  A task that cancelled
\* itself and was suspended in _send_packet does not get here
Returned(t) ==
    [ts EXCEPT ![t] = IF t = MainT THEN TaskRec("rx_wait", "run")
                      ELSE TaskRec("done", "hb")]

RcSent(t) ==
    /\ ts[t].pc = "rc_sent"
    /\ UNCHANGED recVars
    /\ ~ts[t].cancel
    /\ closedEv' = TRUE
    /\ hbEvent' = TRUE
    /\ lockHolder' = NoTask
    /\ ts' = Returned(t)
    /\ UNCHANGED <<client, opened, readyEv, readyDict, ackEv, delay,
                   closingLock, task, session_id, sequence, resume_url,
                   ws_url, started, lockQ, remaining, rxConn, err, sent>>

(***************************************************************************)
(* run_heartbeat() / _manage_heartbeat()                                   *)
(***************************************************************************)
\* the task starts: __heartbeat_event.clear(), event.set(); first turn of
\* the loop: event.clear(), __heartbeat(), wait_for(..., delay)
HbStart(k) ==
    /\ ts[k].pc = "hb_new"
    /\ UNCHANGED recVars
    /\ hbEvent' = FALSE
    /\ ackEv' = "clear"
    /\ sequence' = sequence
    /\ SendPacket(ts, k, "HEARTBEAT", "hb_rl", "hb_sleep")
    /\ UNCHANGED <<client, opened, closedEv, readyEv, readyDict, delay, task,
                   session_id, resume_url, ws_url, started, lockQ, rxConn>>

\* the interval elapsed (TimeoutError, continue): without an ack
\* _reconnect(True), else event.clear() and the next heartbeat
HbTimeout(k) ==
    /\ ts[k].pc = "hb_sleep"
    /\ UNCHANGED recVars
    /\ ~hbEvent
    /\ sequence' = sequence
    /\ IF AckMissing(ackEv)
       THEN /\ CallReconnect(ts, k, TRUE, 1012, "hb_ack", client)
            /\ UNCHANGED <<ackEv, remaining, sent>>
       ELSE /\ ackEv' = "clear"
            /\ SendPacket(ts, k, "HEARTBEAT", "hb_rl", "hb_sleep")
            /\ UNCHANGED <<readyDict, closedEv, lockQ>>
    /\ UNCHANGED <<client, opened, readyEv, hbEvent, delay, task, session_id,
                   resume_url, ws_url, started, rxConn>>

\* __heartbeat_event was set while the task slept: return
HbWake(k) ==
    /\ ts[k].pc = "hb_sleep"
    /\ UNCHANGED recVars
    /\ hbEvent
    /\ ts' = [ts EXCEPT ![k].pc = "done"]
    /\ UNCHANGED <<client, opened, closedEv, readyEv, readyDict, hbEvent,
                   ackEv, delay, closingLock, task, session_id, sequence,
                   resume_url, ws_url, started, lockHolder, lockQ, remaining,
                   rxConn, err, sent>>

(***************************************************************************)
(* _update_presence(presence), called by the application                   *)
(***************************************************************************)
UpdatePresence ==
    /\ ts[AppT].pc = "idle"
    /\ UNCHANGED recVars
    /\ SendPacket(ts, AppT, "PRESENCE", "up_rl", "idle")
    /\ UNCHANGED <<client, opened, closedEv, readyEv, readyDict, hbEvent,
                   ackEv, delay, task, session_id, sequence, resume_url,
                   ws_url, started, lockQ, rxConn>>

UpdatePresenceRl ==
    /\ ts[AppT].pc = "up_rl"
    /\ UNCHANGED recVars
    /\ CanPass("PRESENCE")
    /\ SendPacket(ts, AppT, "PRESENCE", "up_rl", "idle")
    /\ UNCHANGED <<client, opened, closedEv, readyEv, readyDict, hbEvent,
                   ackEv, delay, task, session_id, sequence, resume_url,
                   ws_url, started, lockQ, rxConn>>

(***************************************************************************)
(* The rate limiter's window elapses                                       *)
(***************************************************************************)
WindowElapse ==
    /\ UNCHANGED recVars
    /\ remaining < RateMax
    /\ remaining' = RateMax
    /\ UNCHANGED <<client, opened, closedEv, readyEv, readyDict, hbEvent,
                   ackEv, delay, closingLock, task, session_id, sequence,
                   resume_url, ws_url, started, lockHolder, lockQ, ts, rxConn,
                   err, sent>>

(***************************************************************************)
(* _dispatch_event(event, data) of an entity event                         *)
(***************************************************************************)
gatewayVars ==
    <<client, opened, closedEv, readyEv, readyDict, hbEvent, ackEv, delay,
      closingLock, task, session_id, sequence, resume_url, ws_url, started,
      lockHolder, lockQ, remaining, ts, rxConn, err, sent>>

\* the branches of _dispatch_event for the event of an entity model
Reconcile(ev) ==
    /\ (ev.op = "create" /\ ev.guild_id # 0) => Len(guild) < MaxList
    /\ LET obj == Decode(ev)
           id == obj.id
           old_obj == StorageGet(cache, id)
       IN CASE ev.op = "create" ->
                 /\ cache' = IF HasId(id) THEN StorageMerge(cache, id, obj)
                             ELSE cache
                 /\ created' = created \cup {id}
                 /\ emitted' = <<Emit("raw_socket_create", obj, NoArg),
                                 Emit("on_create", obj, NoArg)>>
            [] ev.op = "update" ->
                 /\ cache' = StorageAdd(cache, id, AfterOf(old_obj, obj))
                 /\ created' = created
                 /\ emitted' = <<Emit("raw_socket_create", obj, NoArg),
                                 Emit("on_raw_update", obj, NoArg),
                                 Emit("on_update", BeforeOf(old_obj),
                                      AfterOf(old_obj, obj))>>
            [] ev.op = "delete" ->
                 /\ cache' = IF HasId(id) THEN StoragePop(cache, id)
                             ELSE cache
                 /\ created' = created
                 /\ emitted' =
                        <<Emit("raw_socket_create", obj, NoArg),
                          Emit("on_raw_delete", obj, NoArg)>>
                        \o (IF HasId(id)
                            THEN <<Emit("on_delete", old_obj, NoArg)>>
                            ELSE <<>>)
    /\ guild' = ModifyGuildCache(guild, ev, Decode(ev))

DispatchEvent(ev) ==
    /\ Reconcile(ev)
    /\ UNCHANGED gatewayVars
    /\ UNCHANGED <<msg, nread, log>>

(***************************************************************************)
(* The receive loop of run() reading and handling an event frame           *)
(***************************************************************************)
\* _receive returns an event frame read from the open transport
RxEvent(ev) ==
    /\ ts[MainT].pc = "rx_recv"
    /\ rxConn = client
    /\ nread < MaxFrames
    /\ nread' = nread + 1
    /\ msg' = Received(nread + 1, rxConn, ev)
    /\ ts' = AfterRead(ts, MainT)
    /\ UNCHANGED <<client, opened, closedEv, readyEv, readyDict, hbEvent,
                   ackEv, delay, closingLock, task, session_id, sequence,
                   resume_url, ws_url, started, lockHolder, lockQ, remaining,
                   rxConn, err, sent, cache, guild, created, emitted, log>>

\* _handle_stream(msg) of an event frame: the Gateway numbers its event
\* frames, "self.sequence = seq", then _dispatch_event(event, data)
HandleEvent ==
    /\ ts[MainT].pc = "hs_event"
    /\ sequence' = msg.k
    /\ Reconcile(msg.ev)
    /\ log' = Append(log, msg)
    /\ msg' = NoMsg
    /\ ts' = BackToLoop
    /\ UNCHANGED <<client, opened, closedEv, readyEv, readyDict, hbEvent,
                   ackEv, delay, closingLock, task, session_id, resume_url,
                   ws_url, started, lockHolder, lockQ, remaining, rxConn, err,
                   sent, nread>>

(***************************************************************************)
(* _dispatch_event of a frame that cannot be decoded or reconciled         *)
(***************************************************************************)
KeyErr == Exc("KeyError", 0)

\* unknown_model  getattr(__import__(path), _name) finds no class
\* no_attribute   model.guild_scheduled_event_id of a model without it
\* no_guild_id    data["guild_id"] of a member payload without the key
Faults == {"unknown_model", "no_attribute", "no_guild_id"}

\* what the fault raises inside the try block
FaultExc(f) == IF f = "no_guild_id" THEN KeyErr ELSE AttrErr

\* "except AttributeError as error: log.warning(...)"
Caught(e) == e.kind = "AttributeError"

\* _receive returns an event frame with the fault; _handle_stream(msg):
\* "self.sequence = seq", dispatch of raw_socket_create, then the try block
\* raises before the cache is touched
RxFaulty(f) ==
    /\ ts[MainT].pc = "rx_recv"
    /\ rxConn = client
    /\ nread < MaxFrames
    /\ nread' = nread + 1
    /\ sequence' = nread + 1
    /\ emitted' = <<Emit("raw_socket_create", NoObj, NoArg)>>
    /\ IF Caught(FaultExc(f))
       THEN /\ ts' = BackToLoop
            /\ UNCHANGED <<err, lockHolder, closingLock>>
       ELSE RaiseFrom(ts, MainT, FaultExc(f))
    /\ UNCHANGED <<client, opened, closedEv, readyEv, readyDict, hbEvent,
                   ackEv, delay, task, session_id, resume_url, ws_url,
                   started, lockQ, remaining, rxConn, sent, cache, guild,
                   created, msg, log>>

(***************************************************************************)
(* The reconciler handed the entity events of one model, in any order      *)
(***************************************************************************)
NextCache == \E ev \in Events : DispatchEvent(ev)

SpecCache == Init /\ [][NextCache]_vars

(***************************************************************************)
(* The session within one rate limiter window, the application sending no  *)
(* presence update: the limiter admits every IDENTIFY / RESUME             *)
(***************************************************************************)
\* the messages of a Gateway whose numbered frames all carry the number 1
CoreMessages == {m \in Messages : m.s < 2}

Next ==
    \/ RunConnect
    \/ \E m \in CoreMessages : RunHello(m)
    \/ RunSent
    \/ Stop
    \/ RxPass
    \/ \E m \in CoreMessages : RxControl(m)
    \/ \E m \in CoreMessages : RxFrame(m)
    \/ \E t \in Reconnectors : RcAcquired(t)
    \/ \E t \in Reconnectors : RcClosed(t)
    \/ \E t \in Reconnectors : RcConnect(t)
    \/ \E t \in Reconnectors : ConnectFail(t)
    \/ \E t \in Reconnectors, m \in CoreMessages : RcHello(t, m)
    \/ \E t \in HbTasks, m \in CoreMessages : RcHelloThrough(t, m)
    \/ \E t \in Reconnectors : RcCancelled(t)
    \/ \E t \in Reconnectors : RcSent(t)
    \/ \E k \in HbTasks : HbStart(k)
    \/ \E k \in HbTasks : HbTimeout(k)
    \/ \E k \in HbTasks : HbWake(k)

Spec == Init /\ [][Next]_vars

(***************************************************************************)
(* The session with the application sending presence updates and the rate  *)
(* limiter running out of permits, against a Gateway that sends only the   *)
(* frames of a plain session                                               *)
(***************************************************************************)
PlainMessages ==
    {HelloFrame, ReadyFrame, AckFrame, ClosedMsg, CloseMsg(1001)}

NextRL ==
    \/ RunConnect
    \/ \E m \in PlainMessages : RunHello(m)
    \/ RunRl
    \/ RunSent
    \/ Stop
    \/ RxPass
    \/ \E m \in PlainMessages : RxControl(m)
    \/ \E m \in PlainMessages : RxFrame(m)
    \/ \E t \in Reconnectors : RcAcquired(t)
    \/ \E t \in Reconnectors : RcClosed(t)
    \/ \E t \in Reconnectors : RcConnect(t)
    \/ \E t \in Reconnectors, m \in PlainMessages : RcHello(t, m)
    \/ \E t \in HbTasks, m \in PlainMessages : RcHelloThrough(t, m)
    \/ \E t \in Reconnectors : RcRl(t)
    \/ \E t \in Reconnectors : RcCancelled(t)
    \/ \E t \in Reconnectors : RcSent(t)
    \/ \E k \in HbTasks : HbStart(k)
    \/ \E k \in HbTasks : HbTimeout(k)
    \/ \E k \in HbTasks : HbWake(k)
    \/ UpdatePresence
    \/ UpdatePresenceRl
    \/ WindowElapse

SpecRL == Init /\ [][NextRL]_vars

(***************************************************************************)
(* The session against a Gateway whose event frames carry sequence         *)
(* numbers in any order                                                    *)
(***************************************************************************)
SeqMessages ==
    {HelloFrame, ReadyFrame, AckFrame, HeartbeatFrame, EventFrame(1),
     EventFrame(2), CloseMsg(1001)}

NextSeq ==
    \/ RunConnect
    \/ \E m \in SeqMessages : RunHello(m)
    \/ RunSent
    \/ Stop
    \/ RxPass
    \/ \E m \in SeqMessages : RxControl(m)
    \/ \E m \in SeqMessages : RxFrame(m)
    \/ \E t \in Reconnectors : RcAcquired(t)
    \/ \E t \in Reconnectors : RcClosed(t)
    \/ \E t \in Reconnectors : RcConnect(t)
    \/ \E t \in Reconnectors, m \in SeqMessages : RcHello(t, m)
    \/ \E t \in HbTasks, m \in SeqMessages : RcHelloThrough(t, m)
    \/ \E t \in Reconnectors : RcCancelled(t)
    \/ \E t \in Reconnectors : RcSent(t)
    \/ \E k \in HbTasks : HbStart(k)
    \/ \E k \in HbTasks : HbTimeout(k)
    \/ \E k \in HbTasks : HbWake(k)

SpecSeq == Init /\ [][NextSeq]_vars

(***************************************************************************)
(* The session with what _handle_stream dispatches itself on record,       *)
(* against a Gateway that sends READY any number of times                  *)
(***************************************************************************)
ReadyMessages ==
    {HelloFrame, ReadyFrame, ResumedFrame, AckFrame, ReconnectFrame,
     CloseMsg(1001)}

NextReady ==
    \/ RunConnect
    \/ \E m \in ReadyMessages : RunHello(m)
    \/ RunSent
    \/ Stop
    \/ RxPass
    \/ \E m \in ReadyMessages : RxControl(m)
    \/ \E m \in ReadyMessages : RxSession(m)
    \/ \E t \in Reconnectors : RcAcquired(t)
    \/ \E t \in Reconnectors : RcClosed(t)
    \/ \E t \in Reconnectors : RcConnect(t)
    \/ \E t \in Reconnectors, m \in ReadyMessages : RcHello(t, m)
    \/ \E t \in HbTasks, m \in ReadyMessages : RcHelloThrough(t, m)
    \/ \E t \in Reconnectors : RcCancelled(t)
    \/ \E t \in Reconnectors : RcSent(t)
    \/ \E k \in HbTasks : HbStart(k)
    \/ \E k \in HbTasks : HbTimeout(k)
    \/ \E k \in HbTasks : HbWake(k)

SpecReady == Init /\ [][NextReady]_vars

(***************************************************************************)
(* The session receiving the event frames of an entity, the Gateway asking *)
(* for reconnects in between                                               *)
(***************************************************************************)
OrderMessages == {HelloFrame, ReadyFrame, ReconnectFrame, CloseMsg(1001)}

NextOrder ==
    \/ RunConnect
    \/ \E m \in OrderMessages : RunHello(m)
    \/ RunSent
    \/ Stop
    \/ RxPass
    \/ \E m \in OrderMessages : RxControl(m)
    \/ \E m \in OrderMessages : RxFrame(m)
    \/ RxEvent(StreamEvent(nread + 1))
    \/ HandleEvent
    \/ \E t \in Reconnectors : RcAcquired(t)
    \/ \E t \in Reconnectors : RcClosed(t)
    \/ \E t \in Reconnectors : RcConnect(t)
    \/ \E t \in Reconnectors, m \in OrderMessages : RcHello(t, m)
    \/ \E t \in HbTasks, m \in OrderMessages : RcHelloThrough(t, m)
    \/ \E t \in Reconnectors : RcCancelled(t)
    \/ \E t \in Reconnectors : RcSent(t)
    \/ \E k \in HbTasks : HbStart(k)
    \/ \E k \in HbTasks : HbTimeout(k)
    \/ \E k \in HbTasks : HbWake(k)

SpecOrder == Init /\ [][NextOrder]_vars

(***************************************************************************)
(* The same session, some of its event frames faulty                       *)
(***************************************************************************)
NextDecode ==
    \/ NextOrder
    \/ \E f \in Faults : RxFaulty(f)

SpecDecode == Init /\ [][NextDecode]_vars

(***************************************************************************)
(* The session under a fair scheduler: a task that can run is run, the     *)
(* lock is handed on, close() and ws_connect() return or fail, and a new   *)
(* transport delivers a first message.  Nothing makes the Gateway send a   *)
(* frame to the receive loop.                                              *)
(***************************************************************************)
StopMessages == {HelloFrame, ReadyFrame, CloseMsg(1001)}

NextStop ==
    \/ RunConnect
    \/ \E m \in StopMessages : RunHello(m)
    \/ RunSent
    \/ Stop
    \/ RxPass
    \/ \E m \in StopMessages : RxControl(m)
    \/ \E m \in StopMessages : RxFrame(m)
    \/ \E t \in Reconnectors : RcAcquired(t)
    \/ \E t \in Reconnectors : RcClosed(t)
    \/ \E t \in Reconnectors : RcConnect(t)
    \/ \E t \in Reconnectors : ConnectFail(t)
    \/ \E t \in Reconnectors, m \in StopMessages : RcHello(t, m)
    \/ \E t \in HbTasks, m \in StopMessages : RcHelloThrough(t, m)
    \/ \E t \in Reconnectors : RcCancelled(t)
    \/ \E t \in Reconnectors : RcSent(t)
    \/ \E k \in HbTasks : HbStart(k)
    \/ \E k \in HbTasks : HbTimeout(k)
    \/ \E k \in HbTasks : HbWake(k)

\* the steps of task t inside run()'s handshake and inside _reconnect
TaskStep(t) ==
    \/ t = MainT /\ RunSent
    \/ RcAcquired(t)
    \/ RcClosed(t)
    \/ RcConnect(t)
    \/ ConnectFail(t)
    \/ \E m \in StopMessages : RcHello(t, m)
    \/ RcCancelled(t)
    \/ RcSent(t)

SpecStop ==
    /\ Init
    /\ [][NextStop]_vars
    /\ WF_vars(Stop)
    /\ \A t \in Reconnectors : WF_vars(TaskStep(t))

(***************************************************************************)
(* _dispatch_event over the entity models: the identifier derived for an   *)
(* object, the Storage of each model (the keys it holds) and the           *)
(* sub-collections of the cached guilds.  The values stored are those of   *)
(* Reconcile and are left out here.                                        *)
(***************************************************************************)
GuildIds == {1, 2}

Models ==
    {"Channel", "Thread", "Message", "Guild", "GuildMember", "Invite",
     "GuildBan", "ChannelPins", "MessageReaction", "GuildScheduledEventUser"}

\* the models whose objects have an attribute id
WithId == {"Channel", "Thread", "Message", "Guild"}

\* "elif model.__name__ in [...]: id = None"
Uncached == {"Invite", "GuildBan", "ChannelPins", "MessageReaction"}

\* '"message" in name'
MessageScoped(model) == model \in {"Message", "MessageReaction"}

\* the list attributes of a Guild object
GuildAttrs == {"channels", "threads", "members"}

\* (variant: every child is looked for in the channels)
LowerSChannels(model) == "channels"

\* f"{model_name.lower()}s"
LowerS(model) ==
    CASE model = "Channel" -> "channels"
      [] model = "Thread" -> "threads"
      [] model = "Message" -> "messages"
      [] model = "GuildMember" -> "guildmembers"
      [] OTHER -> "-"

\* f"{model_name}s", the attribute that setattr assigns the list to
UpperS(model) ==
    CASE model = "Channel" -> "Channels"
      [] model = "Thread" -> "Threads"
      [] OTHER -> "-"

\* an event of a model: its operation, the id and the guild_id of its
\* payload (0: not carried)
KindEvents ==
    {ev \in [model : Models, op : Ops, id : 0..2, guild_id : 0..2,
             name : {"a"}, topic : {"-"}] :
        /\ ev.model = "Guild" => ev.id \in GuildIds
        /\ ev.model \in (WithId \ {"Guild"}) \cup {"GuildMember"} => ev.id = 1
        /\ ev.model \notin WithId \cup {"GuildMember"} => ev.id = 0
        /\ ev.model = "GuildMember" => ev.guild_id # 0}

\* model.guild_scheduled_event_id is read from the class, not from obj: the
\* class has no such attribute (AttributeError), or it has one, an object
\* of the class that is no identifier of the payload
ClassAttrs == {"AttributeError", "descriptor"}

KeyNone == 0
MemberKey(g, i) == 10 * g + i
ClassAttrKey == 99

\* the id derived for obj: (guild_id, obj.id) of a Member, obj.id, else the
\* special cases of "if id is None"
KeyOf(ev, cls) ==
    IF ev.model = "GuildMember" THEN MemberKey(ev.guild_id, ev.id)
    ELSE IF ev.model \in WithId THEN ev.id
    ELSE IF ev.model = "GuildScheduledEventUser" THEN ClassAttrKey
    ELSE KeyNone

Entry(model, key) == [m |-> model, k |-> key]

\* self._http.cache[Guild].get(Snowflake(guild_id))
GuildCached(c, g) == Entry("Guild", g) \in c

\* a Guild object: its lists and the attributes assigned by setattr
EmptyGuild == [channels |-> <<>>, threads |-> <<>>, members |-> <<>>,
               set |-> {}]

\* "guild_id and not isinstance(obj, Guild) and "message" not in name and
\* id is not None"
Guarded(ev, id) ==
    /\ ev.guild_id # 0
    /\ ev.model # "Guild"
    /\ ~MessageScoped(ev.model)
    /\ id # KeyNone

\* the list that __modify_guild_cache works on, "-" when it returns early
\* or finds no list
ListOf(c, ev, id) ==
    IF ~Guarded(ev, id) THEN "-"
    ELSE IF ~GuildCached(c, ev.guild_id) THEN "-"
    ELSE IF LowerS(ev.model) \in GuildAttrs THEN LowerS(ev.model)
    ELSE "-"

\* __modify_guild_cache()
ModifyGuilds(gs, c, ev, id) ==
    LET attr == ListOf(c, ev, id)
    IN IF attr = "-" THEN gs
       ELSE [gs EXCEPT ![ev.guild_id][attr] =
                           ModifyGuildCache(@, ev, Decode(ev)),
                       ![ev.guild_id].set = @ \cup {UpperS(ev.model)}]

\* what the Storage of the model held under the id
Held(c, ev, id) == IF Entry(ev.model, id) \in c THEN Decode(ev) ELSE NoObj

\* the Guild objects after the Storage of Guild was written: a guild that
\* left the cache is gone with its lists
Objects(gs, c) == [g \in GuildIds |-> IF GuildCached(c, g) THEN gs[g]
                                      ELSE EmptyGuild]

DispatchKind(ev, cls) ==
    LET obj == Decode(ev)
        id == KeyOf(ev, cls)
        raw == Emit("raw_socket_create", obj, NoArg)
        e == Entry(ev.model, id)
    IN /\ (ev.op = "create" /\ ListOf(cache, ev, id) # "-")
             => Len(guild[ev.guild_id][ListOf(cache, ev, id)]) < MaxList
       /\ IF ev.model = "GuildScheduledEventUser" /\ cls = "AttributeError"
          THEN \* caught by "except AttributeError"
               /\ emitted' = <<raw>>
               /\ UNCHANGED <<cache, guild>>
          ELSE CASE ev.op = "create" ->
                      /\ cache' = IF id # KeyNone THEN cache \cup {e}
                                  ELSE cache
                      /\ emitted' = <<raw, Emit("on_create", obj, NoArg)>>
                      /\ guild' = ModifyGuilds(guild, cache, ev, id)
                 [] ev.op = "update" ->
                      IF ev.model \notin WithId \cup {"GuildMember"}
                      THEN \* "if not hasattr(obj, "id"): return"
                           /\ emitted' =
                                  <<raw, Emit("on_raw_update", obj, NoArg)>>
                           /\ UNCHANGED <<cache, guild>>
                      ELSE /\ cache' = cache \cup {e}
                           /\ emitted' =
                                  <<raw, Emit("on_raw_update", obj, NoArg),
                                    Emit("on_update", Held(cache, ev, id),
                                         obj)>>
                           /\ guild' = ModifyGuilds(guild, cache, ev, id)
                 [] ev.op = "delete" ->
                      /\ cache' = cache \ {e}
                      /\ emitted' =
                             <<raw, Emit("on_raw_delete", obj, NoArg)>>
                             \o (IF id # KeyNone
                                 THEN <<Emit("on_delete",
                                             Held(cache, ev, id), NoArg)>>
                                 ELSE <<>>)
                      /\ guild' = Objects(ModifyGuilds(guild, cache, ev, id),
                                          cache \ {e})
       /\ UNCHANGED gatewayVars
       /\ UNCHANGED <<created, msg, nread, log>>

\* no model has anything cached
InitKinds ==
    /\ InitSession
    /\ cache = {}
    /\ guild = [g \in GuildIds |-> EmptyGuild]

\* the events of the models without an identifier, of the guilds and of one
\* model that has an identifier
NoIdEvents ==
    {ev \in KindEvents :
        ev.model \in Uncached \cup {"GuildScheduledEventUser", "Guild",
                                    "Channel"}}

\* what reading the class attribute can give for the model of the event
ClassAttrsOf(ev) ==
    IF ev.model = "GuildScheduledEventUser" THEN ClassAttrs ELSE {"-"}

NextKinds ==
    \E ev \in NoIdEvents : \E cls \in ClassAttrsOf(ev) : DispatchKind(ev, cls)

SpecKinds == InitKinds /\ [][NextKinds]_vars

\* the events of the children of a guild, of the guilds, of the messages
\* and of one model without an identifier; guild 2 has channels only
ChildEvents ==
    {ev \in KindEvents :
        /\ ev.model \in {"Channel", "Thread", "Message", "Guild",
                         "GuildMember", "Invite"}
        /\ ev.model \in {"Thread", "GuildMember"} => ev.guild_id # 2}

NextGuilds == \E ev \in ChildEvents : DispatchKind(ev, "-")

SpecGuilds == InitKinds /\ [][NextGuilds]_vars

(***************************************************************************)
(* _dispatch_event("INTERACTION_CREATE", data)                             *)
(***************************************************************************)
\* data["type"]: the members of InteractionType, "none" a payload without
\* type
InteractionTypes ==
    {"none", "PING", "APPLICATION_COMMAND", "MESSAGE_COMPONENT",
     "APPLICATION_COMMAND_AUTOCOMPLETE", "MODAL_SUBMIT"}

\* the name, custom_id or id of the interaction's data
Idents == {"a", "b"}

\* __contextualize(data): a context object, None for a PING
Contextualize(ty, ident) ==
    IF ty = "PING" THEN NoObj ELSE Obj(0, ident, ty)

\* (variant: no branch dispatches the event of the kind)
KindEventNone(ty) == "-"

\* the event that the branch of the type dispatches, "-" without a branch
KindEvent(ty) ==
    CASE ty = "APPLICATION_COMMAND" -> "on_command"
      [] ty = "MESSAGE_COMPONENT" -> "on_component"
      [] ty = "APPLICATION_COMMAND_AUTOCOMPLETE" -> "on_autocomplete"
      [] ty = "MODAL_SUBMIT" -> "on_modal"
      [] OTHER -> "-"

\* _name
NamedEvent(ty, ident) ==
    CASE ty = "APPLICATION_COMMAND" -> "command_" \o ident
      [] ty = "MESSAGE_COMPONENT" -> "component_" \o ident
      [] ty = "APPLICATION_COMMAND_AUTOCOMPLETE" -> "autocomplete_" \o ident
      [] ty = "MODAL_SUBMIT" -> "modal_" \o ident
      [] OTHER -> ""

DispatchInteraction(ty, ident) ==
    LET raw == Emit("raw_socket_create", Obj(0, ident, ty), NoArg)
        _context == Contextualize(ty, ident)
    IN /\ emitted' =
              IF ty = "none" THEN <<raw>>
              ELSE <<raw>>
                   \o (IF KindEvent(ty) # "-"
                       THEN <<Emit(KindEvent(ty), _context, NoArg)>>
                       ELSE <<>>)
                   \o <<Emit(NamedEvent(ty, ident), _context, NoArg),
                        Emit("on_interaction", _context, NoArg),
                        Emit("on_interaction_create", _context, NoArg)>>
       /\ UNCHANGED gatewayVars
       /\ UNCHANGED <<cache, guild, created, msg, nread, log>>

\* interactions in between the events of entities
NextInteract ==
    \/ NextKinds
    \/ \E ty \in InteractionTypes, ident \in Idents :
          DispatchInteraction(ty, ident)

SpecInteract == InitKinds /\ [][NextInteract]_vars

(***************************************************************************)
(* VoiceEvents._on_raw_voice_state_update(event): the voice states of the  *)
(* users as the cache holds them, and the events dispatched for one raw    *)
(* update.  Here cache maps a user to its voice state; a state stands for  *)
(* its channel, its member, the pair (mute, self_mute) and the pair        *)
(* (deaf, self_deaf).                                                      *)
(***************************************************************************)
VoiceUser == 1
BotUser == 2
VoiceUsers == {VoiceUser, BotUser}
VoiceChannels == {1, 2}

VoiceState(user, channel, mute, deaf) ==
    [user |-> user, channel |-> channel, mute |-> mute, deaf |-> deaf]

\* None
NoVoice == VoiceState(0, 0, FALSE, FALSE)

\* event.data of VOICE_STATE_UPDATE; channel_id 0 is null (the user left),
\* member.user.bot is a property of the user
RawVoiceEvents ==
    [user_id : VoiceUsers, channel_id : {0} \cup VoiceChannels,
     mute : BOOLEAN, deaf : BOOLEAN]

IsBot(ev) == ev.user_id = BotUser

\* the value place_voice_state_data returns: the state the event describes,
\* None when the event has no channel
PlacedState(ev) ==
    IF ev.channel_id = 0 THEN NoVoice
    ELSE VoiceState(ev.user_id, ev.channel_id, ev.mute, ev.deaf)

\* cache.place_voice_state_data(data): the event applied to the cache
PlaceVoiceStateData(c, ev) == [c EXCEPT ![ev.user_id] = PlacedState(ev)]

\* cache.get_voice_state(user_id)
GetVoiceState(c, user_id) == c[user_id]

\* cache.get_bot_voice_state(guild_id): none, or the active voice state of
\* the client in the guild
BotVoiceStates == {NoVoice, VoiceState(BotUser, 1, FALSE, FALSE)}

\* what follows VoiceStateUpdate for a user that is not a bot
VoiceFollowUps(before, after) ==
    IF before # NoVoice /\ after # NoVoice
    THEN (IF before.mute # after.mute
          THEN <<Emit("VoiceUserMute", after, NoVoice)>> ELSE <<>>)
         \o (IF before.deaf # after.deaf
             THEN <<Emit("VoiceUserDeafen", after, NoVoice)>> ELSE <<>>)
         \o (IF before.channel # after.channel
             THEN <<Emit("VoiceUserMove", after, before)>> ELSE <<>>)
    ELSE IF before = NoVoice /\ after # NoVoice
    THEN <<Emit("VoiceUserJoin", after, NoVoice)>>
    ELSE IF before # NoVoice
    THEN <<Emit("VoiceUserLeave", before, NoVoice)>>
    ELSE <<>>

\* the cache is written first (place_voice_state_data), and read for
\* `before' after that
OnRawVoiceStateUpdate(ev, vc) ==
    LET placed == PlaceVoiceStateData(cache, ev)
        after == PlacedState(ev)
    IN /\ cache' = placed
       /\ IF IsBot(ev)
          THEN emitted' = <<Emit("VoiceStateUpdate", vc, after)>>
          ELSE /\ vc = NoVoice
               /\ LET before == GetVoiceState(placed, ev.user_id)
                  IN emitted' = <<Emit("VoiceStateUpdate", before, after)>>
                                    \o VoiceFollowUps(before, after)
       /\ UNCHANGED gatewayVars
       /\ UNCHANGED <<guild, created, msg, nread, log>>

\* no user is in a voice channel
InitVoice ==
    /\ InitSession
    /\ cache = [u \in VoiceUsers |-> NoVoice]
    /\ guild = <<>>

NextVoice ==
    \E ev \in RawVoiceEvents, vc \in BotVoiceStates :
        OnRawVoiceStateUpdate(ev, vc)

SpecVoice == InitVoice /\ [][NextVoice]_vars

(***************************************************************************)
(* Close codes (receive loop of run)                                       *)
(***************************************************************************)
\* READY has been handled: the session has reached its steady state
Steady == readyDict # "unset"

C3_FatalClose ==
    [][\A c \in CloseCodes :
         (/\ c >= 4000
          /\ c # 4001
          /\ \/ RxControl(CloseMsg(c))
             \/ RunHello(CloseMsg(c))
             \/ RcHello(MainT, CloseMsg(c)))
            => /\ ts'[MainT].pc = "error"
               /\ err'[MainT] = LibErr(c)
               /\ lockHolder' \in {lockHolder, NoTask}
               /\ UNCHANGED <<client, opened, closedEv, lockQ, sent>>]_vars

C3_Witness ==
    /\ ts[MainT].pc = "error"
    /\ err[MainT] = LibErr(4000)
    /\ Steady
    /\ closedEv
    /\ client = rxConn
    /\ lockHolder = NoTask

\* C4: a CLOSE frame with code 4001 is never surfaced as a fatal error: no
\* task ends with a LibraryException carrying 4001.
C4_Suppressed4001 == \A t \in Tasks : err[t] # LibErr(4001)

(***************************************************************************)
(* Single flight of _reconnect                                             *)
(***************************************************************************)
\* C5: a caller of _reconnect that waited on reconnect_lock performs no
\* second reconnect for the failure it detected: when the lock comes free
\* with the usable signal set and a transport newer than the failed one in
\* place (the reconnect it waited for has completed), the waiter does not
\* start the body, so that the signal stays set and no transport is closed.
C5_SingleFlight ==
    [][\A t \in Reconnectors :
         (ts[t].pc = "rc_lock" /\ ts[t].waited /\ lockHolder = NoTask
            /\ closedEv /\ ts[t].from # 0 /\ client > ts[t].from)
            => /\ closedEv'
               /\ ts'[t].pc \notin {"rc_close", "rc_connect"}]_vars

(***************************************************************************)
(* Heartbeat loop                                                          *)
(***************************************************************************)
\* C6: when the interval elapses and no HEARTBEAT_ACK was handled since
\* the loop wrote its previous HEARTBEAT, the heartbeat loop writes no
\* frame but calls _reconnect(True): it is then inside _reconnect (or
\* _reconnect has raised).
C6_MissedAckReconnects ==
    [][\A k \in HbTasks :
         (ts[k].pc = "hb_sleep" /\ ackEv # "HEARTBEAT_ACK" /\ HbTimeout(k))
            => /\ sent' = sent
               /\ ts'[k].pc \in RcPcs \cup {"error"}]_vars

(***************************************************************************)
(* _send_packet and the rate limiter                                       *)
(***************************************************************************)
\* C7: every frame written that is not a HEARTBEAT took a rate limiter
\* permit, and one was left to take when _send_packet was entered; a
\* HEARTBEAT takes none and no task is ever parked in the rate limiter with
\* a HEARTBEAT to write.
C7_PermitBeforeSend ==
    /\ sent.op \notin {"-", "HEARTBEAT"} => (sent.permit /\ sent.left > 0)
    /\ sent.op = "HEARTBEAT" => ~sent.permit
    /\ \A t \in Tasks : ts[t].pc \notin {"hb_rl", "hs_rl"}

\* a HEARTBEAT was written with no permit left, another sender being
\* parked in the rate limiter
C7_Witness ==
    /\ sent.op = "HEARTBEAT"
    /\ sent.left = 0
    /\ remaining = 0
    /\ \E t \in Tasks : ts[t].pc \in {"rc_rl", "up_rl"}

\* C8: an application send issued while a reconnect is in progress (the
\* usable signal cleared, no transport) does not fail: no step taken in
\* such a state ends the application's call with an exception.
C8_SendWaitsForUsable ==
    [][(~closedEv /\ lockHolder # NoTask /\ client = 0)
          => err'[AppT] = err[AppT]]_vars

(***************************************************************************)
(* The handshake read (force mode)                                         *)
(***************************************************************************)
\* C9: when the first frame of a handshake (run or _reconnect) has an
\* opcode other than HELLO the attempt ends with an exception: no
\* heartbeat interval is stored, no heartbeat task is created and no frame
\* is written.
C9_HelloRequired ==
    [][\A m \in TextFrames, t \in Reconnectors :
         (m.op # "HELLO" /\ ((t = MainT /\ RunHello(m)) \/ RcHello(t, m)))
            => /\ ts'[t].pc = "error"
               /\ UNCHANGED <<delay, task, sent>>]_vars

\* C10: a CLOSE (of any code), CLOSED or CLOSING message read in force
\* mode ends the reading task with a LibraryException; the task neither
\* enters _reconnect nor waits for __closed, and its attempt opens no
\* transport.
C10_ForcedCloseRaises ==
    [][\A t \in Reconnectors :
         ts[t].pc \in {"run_hello", "rc_hello"}
            => \A m \in CloseClass :
                  ((t = MainT /\ RunHello(m)) \/ RcHello(t, m))
                     => /\ ts'[t].pc = "error"
                        /\ err'[t].kind = "LibraryException"
                        /\ lockHolder' \in {lockHolder, NoTask}
                        /\ UNCHANGED <<client, opened, closedEv, lockQ,
                                       sent>>]_vars

C10_Witness ==
    \E t \in Reconnectors :
        /\ ts[t].pc = "error"
        /\ err[t] = ForceErr
        /\ ts[t].site = "rx_close"

(***************************************************************************)
(* Heartbeats and READY                                                    *)
(***************************************************************************)
\* C11: a HEARTBEAT is written to a transport only after a READY read from
\* that transport (or from a later one) has been handled: whenever the
\* last written frame is a HEARTBEAT on transport c, session_id, which a
\* READY sets to the transport it was read from, is at least c.
C11_NoHeartbeatBeforeReady ==
    sent.op = "HEARTBEAT" => session_id >= sent.conn

(***************************************************************************)
(* The sequence number of the session                                      *)
(***************************************************************************)
\* C12: while session_id is unchanged the stored sequence never decreases:
\* no step that keeps session_id lowers sequence, whatever sequence number
\* the handled frame carries.
C12_SequenceMonotone ==
    [][session_id' = session_id => sequence' >= sequence]_vars

(***************************************************************************)
(* session_id                                                              *)
(***************************************************************************)
\* C13: session_id is cleared on a non-resumable close: while a task is in
\* a _reconnect that does not resume (called for a CLOSE with code 1000 or
\* for an INVALID_SESSION with a false payload), which lasts until its
\* IDENTIFY is written and so ends before the next READY, session_id is
\* unset.
C13_SessionCleared ==
    \A t \in Reconnectors :
        (ts[t].pc \in RcPcs /\ ~ts[t].resume) => session_id = 0

(***************************************************************************)
(* The entity cache after an event                                         *)
(***************************************************************************)
\* the cached value merged with the fields the payload of ev carries
Merged(old, ev) ==
    Obj(old.id, ev.name, IF ev.topic = "-" THEN old.topic ELSE ev.topic)

\* C15: after every create or update event the cache entry of the
\* identifier is present and holds the merged value (the decoded value when
\* nothing was cached), after every delete event it is absent, and an
\* update event for an identifier that a create event was handled for
\* before dispatches a "before" that is not None.
C15_CacheFollowsEvents ==
    [][\A ev \in Events :
         DispatchEvent(ev)
            => /\ ev.op \in {"create", "update"}
                    => cache'[ev.id] = IF cache[ev.id] = NoObj THEN Decode(ev)
                                       ELSE Merged(cache[ev.id], ev)
               /\ ev.op = "delete" => cache'[ev.id] = NoObj
               /\ (ev.op = "update" /\ ev.id \in created)
                    => emitted'[3].a # NoObj]_vars

\* the entries of the list that have that id
Count(list, id) == Cardinality({i \in 1..Len(list) : list[i].id = id})

\* C16: an event that carries the guild_id of the cached guild leaves in
\* the guild's sub-collection exactly one entry with the child's id after a
\* create (also a repeated one) and after an update of a child the list
\* holds, and no entry with that id after a delete.
C16_OneEntryPerChild ==
    [][\A ev \in Events :
         (ev.guild_id # 0 /\ DispatchEvent(ev))
            => /\ ev.op = "create" => Count(guild', ev.id) = 1
               /\ (ev.op = "update" /\ Count(guild, ev.id) > 0)
                    => Count(guild', ev.id) = 1
               /\ ev.op = "delete" => Count(guild', ev.id) = 0]_vars

\* C17: an update event for a cached entity dispatches on_<name> with the
\* value cached before the event as "before" and, as "after", the value
\* that has the fields of the payload and, for the fields the payload does
\* not carry, those cached before; the cache holds the "after" value.
C17_UpdateBeforeAfter ==
    [][\A ev \in Events :
         (ev.op = "update" /\ cache[ev.id] # NoObj /\ DispatchEvent(ev))
            => /\ emitted'[3] = Emit("on_update", cache[ev.id],
                                     Merged(cache[ev.id], ev))
               /\ cache'[ev.id] = Merged(cache[ev.id], ev)]_vars

\* an update that carried a new name and no topic: "before" has the old
\* name, "after" the new one, both the topic cached before
C17_Witness ==
    /\ Len(emitted) = 3
    /\ emitted[3].name = "on_update"
    /\ emitted[2].a.topic = "-"
    /\ emitted[3].a.name = "a"
    /\ emitted[3].b.name = "b"
    /\ emitted[3].a.topic = "x"
    /\ emitted[3].b.topic = "x"
    /\ cache[emitted[3].b.id] = emitted[3].b

\* C18: an update event for an identifier with no cached value dispatches
\* on_<name> with the decoded value as "before" and as "after", and the
\* decoded value is stored under the identifier.
C18_UpdateUncached ==
    [][\A ev \in Events :
         (ev.op = "update" /\ cache[ev.id] = NoObj /\ DispatchEvent(ev))
            => /\ emitted'[3] = Emit("on_update", Decode(ev), Decode(ev))
               /\ cache'[ev.id] = Decode(ev)]_vars

C20_DeleteValue ==
    [][\A ev \in Events :
         (ev.op = "delete" /\ DispatchEvent(ev))
            => emitted'[3] =
                  Emit("on_delete",
                       IF cache[ev.id] # NoObj THEN cache[ev.id]
                       ELSE Decode(ev),
                       NoArg)]_vars

\* C14: the event frames are handled in the order of their receipt, none
\* left out: the k-th frame handled is the k-th frame the transport
\* delivered, no frame is read while a frame read before it is not handled
\* yet, and the dispatches made last are those of the frame received last
\* of the handled ones; this also when the session reconnected in between.
C14_ReceiptOrder ==
    /\ \A i \in 1..Len(log) : log[i].k = i
    /\ nread = Len(log) + (IF msg = NoMsg THEN 0 ELSE 1)
    /\ msg # NoMsg => (msg.k = nread /\ ts[MainT].pc = "hs_event")
    /\ log # <<>> => /\ Len(emitted) >= 2
                     /\ emitted[2].a = Decode(StreamEvent(Len(log)))
                     /\ cache[1] = Decode(StreamEvent(Len(log)))

\* one frame handled on the first transport, the next on the transport a
\* reconnect opened that was called while a RECONNECT frame was handled
C14_Witness ==
    /\ Len(log) = 2
    /\ log[1].conn = 1
    /\ log[2].conn = 2
    /\ sent.site = "hs_reconnect"
    /\ sent.conn = 2

(***************************************************************************)
(* Heartbeat tasks, reconnect_lock, the ready signal                       *)
(***************************************************************************)
\* the heartbeat tasks that were created and have not ended
LiveHb == {k \in HbTasks : ts[k].pc \notin (EndPcs \cup {"unborn"})}

\* C24: at every point at most one heartbeat task is live.
C24_OneHeartbeatTask == Cardinality(LiveHb) <= 1

\* the pcs of the body of _reconnect, under reconnect_lock
BodyPcs == RcPcs \ {"rc_lock"}

\* C26: a task is in the body of _reconnect exactly while it holds
\* reconnect_lock, so at most one task is in the body and the lock is free
\* again when the body ended, however it ended; the usable signal is clear
\* while a task is in the body; every caller that waits for the lock is in
\* the lock's queue, so a free lock is handed to it.
C26_ReconnectExclusive ==
    /\ \A t \in Reconnectors : ts[t].pc \in BodyPcs <=> lockHolder = t
    /\ lockHolder # NoTask => ~closedEv
    /\ \A t \in Reconnectors :
          ts[t].pc = "rc_lock" => \E i \in 1..Len(lockQ) : lockQ[i] = t

\* the body of one caller ended with an exception and the caller that
\* waited for the lock is in the body now
C26_Witness ==
    \E t1, t2 \in Reconnectors :
        /\ ts[t1].pc = "error"
        /\ ts[t1].site \in {"hb_ack", "rx_close", "rx_closed", "hs_reconnect",
                            "hs_invalid"}
        /\ err[t1] \in {ConnErr, TypeErr, ForceErr}
        /\ lockHolder = t2
        /\ ts[t2].waited

\* C27: a RESUME frame is written only while session_id is set, and a
\* resuming _reconnect called while session_id is unset (missed ack,
\* RECONNECT, truthy INVALID_SESSION, close code other than 1000, CLOSED)
\* goes on to send an IDENTIFY.
C27_ResumeNeedsSession ==
    [][/\ (sent' # sent /\ sent'.op = "RESUME") => session_id # 0
       /\ session_id = 0 =>
            /\ \A k \in HbTasks :
                 (ts[k].pc = "hb_sleep" /\ AckMissing(ackEv) /\ HbTimeout(k))
                    => (ts'[k].pc \in RcPcs /\ ~ts'[k].resume)
            /\ \A m \in CoreMessages :
                 (/\ ts[MainT].pc = "rx_recv"
                  /\ \/ /\ m.op = "RECONNECT" \/ (m.op = "INVALIDATE_SESSION"
                                                  /\ Truthy(m.d))
                        /\ RxFrame(m)
                     \/ /\ ReceivePacket(m, FALSE, closedEv).act = "reconnect"
                        /\ ReceivePacket(m, FALSE, closedEv).resume
                        /\ RxControl(m))
                    => (ts'[MainT].pc \in RcPcs /\ ~ts'[MainT].resume)]_vars

\* C28: from the start of a _reconnect call to its end the ready signal is
\* clear.
C28_ReadyClearedByReconnect ==
    \A t \in Reconnectors : ts[t].pc \in RcPcs => ~readyEv

C25_HeartbeatSurvivesReset == task # NoTask => ts[task].pc # "done"

\* C29: a heartbeat task that called _reconnect for a missed ack and
\* cancelled itself in it goes on to the end of the body: it is not ended
\* by the CancelledError before the usable signal is set again.
C29_SelfCancelCompletes ==
    [][\A k \in HbTasks :
         (ts[k].site = "hb_ack" /\ ts[k].cancel /\ ts[k].pc \in BodyPcs)
            => ts'[k].pc # "cancelled"]_vars
(***************************************************************************)
(* Failures of one frame                                                   *)
(***************************************************************************)
\* C21: a frame whose decoding or reconciling fails is dropped: no exception
\* leaves _dispatch_event, the receive loop goes on to its next read and
\* the caches are as they were
C21_FailuresContained ==
    [][ts[MainT].pc = "rx_recv"
          => \A f \in Faults :
                RxFaulty(f) => /\ ts'[MainT].pc = "rx_wait"
                               /\ err'[MainT] = NoErr
                               /\ UNCHANGED <<cache, guild>>]_vars

(***************************************************************************)
(* The stop signal                                                         *)
(***************************************************************************)
HbFailed == \E k \in HbTasks : ts[k].pc = "error"

\* C22: an exception that leaves the heartbeat loop sets _closing_lock, and
\* the receive loop of run() then exits
C22_HeartbeatFailureStops ==
    HbFailed ~> (closingLock /\ ts[MainT].pc \in EndPcs)

C22_Witness ==
    /\ HbFailed
    /\ closingLock
    /\ ts[MainT].pc = "done"
    /\ err[MainT] = NoErr

\* C23: once _closing_lock is set, a receive loop whose read is pending
\* exits, whether or not the transport delivers anything
C23_StopCancelsRead ==
    (closingLock /\ ts[MainT].pc = "rx_recv") ~> ts[MainT].pc \in EndPcs

C23_Witness ==
    /\ closingLock
    /\ ts[MainT].pc = "rx_recv"
    /\ rxConn = client
    /\ Steady

(***************************************************************************)
(* Models without an identifier, the guilds' sub-collections               *)
(***************************************************************************)
NoIdModels == Uncached \cup {"GuildScheduledEventUser"}

NoIdCreates == {ev \in KindEvents : ev.model \in NoIdModels /\ ev.op = "create"}

\* C31: a create / add event of a model without a natural identifier leaves
\* the entity cache as it was and dispatches on_<name> once, with the
\* decoded value
C31_NoIdForwarded ==
    [][\A ev \in NoIdCreates : \A cls \in ClassAttrsOf(ev) :
         DispatchKind(ev, cls)
            => /\ cache' = cache
               /\ emitted' = <<Emit("raw_socket_create", Decode(ev), NoArg),
                               Emit("on_create", Decode(ev), NoArg)>>]_vars

\* the cases in which __modify_guild_cache is to leave the guilds alone
Exempt(ev) ==
    \/ ev.guild_id = 0
    \/ ev.model = "Guild"
    \/ MessageScoped(ev.model)
    \/ KeyOf(ev, "-") = KeyNone
    \/ ~GuildCached(cache, ev.guild_id)

\* the sub-collection of a guild that is named after the model
NamedAfter(model) ==
    CASE model = "Channel" -> "channels"
      [] model = "Thread" -> "threads"
      [] model = "GuildMember" -> "members"
      [] OTHER -> "-"

\* C32: __modify_guild_cache for an event without guild_id, of a Guild, of
\* a message-scoped name, without a derivable identifier or of a guild that
\* is not cached leaves every cached guild as it was; for any other event
\* it changes at most, in the guild of its guild_id, the sub-collection
\* named after its model (which setattr binds to f"{model_name}s" as well)
C32_OnlyOwnSubCollection ==
    \A ev \in ChildEvents :
       LET after == ModifyGuilds(guild, cache, ev, KeyOf(ev, "-"))
       IN \A h \in GuildIds :
             GuildCached(cache, h)
                => IF Exempt(ev) \/ h # ev.guild_id
                   THEN after[h] = guild[h]
                   ELSE /\ \A a \in GuildAttrs \ {NamedAfter(ev.model)} :
                              after[h][a] = guild[h][a]
                        /\ after[h].set
                              \subseteq guild[h].set \cup {UpperS(ev.model)}

\* both guilds cached, a thread of guild 1 added after channels of both:
\* the channels of guild 1 and all of guild 2 are as they were
C32_Witness ==
    /\ GuildCached(cache, 1)
    /\ GuildCached(cache, 2)
    /\ Len(guild[1].channels) = 1
    /\ Len(guild[2].channels) = 1
    /\ Len(guild[1].threads) = 1
    /\ guild[1].set = {"Channels", "Threads"}
    /\ Entry("Thread", 1) \in cache
    /\ emitted[2].name = "on_create"

(***************************************************************************)
(* Interactions                                                            *)
(***************************************************************************)
RECURSIVE NamesOf(_)
NamesOf(es) == IF es = <<>> THEN <<>>
               ELSE <<es[1].name>> \o NamesOf(Tail(es))

KindNames == {"on_command", "on_component", "on_autocomplete", "on_modal"}

\* what the claim has an interaction of the type dispatch
InteractionOrder(ty, ident, names) ==
    IF ty = "none" THEN names = <<"raw_socket_create">>
    ELSE /\ Len(names) = 5
         /\ names[1] = "raw_socket_create"
         /\ names[2] \in KindNames
         /\ names[3] = NamedEvent(ty, ident)
         /\ names[3] # ""
         /\ names[4] = "on_interaction"
         /\ names[5] = "on_interaction_create"

\* C33 as claimed: an INTERACTION_CREATE leaves the caches alone; with any
\* type it dispatches raw_socket_create, the event of the kind, the named
\* event, on_interaction and on_interaction_create, in this order, without
\* a type raw_socket_create only
C33_InteractionOrder ==
    [][emitted'[1].a.id = 0
          => \A ty \in InteractionTypes, ident \in Idents :
                DispatchInteraction(ty, ident)
                   => /\ UNCHANGED <<cache, guild>>
                      /\ InteractionOrder(ty, ident, NamesOf(emitted'))]_vars

Handled == InteractionTypes \ {"PING"}

\* C33, amended: the same for a payload without type and for the four types
\* that have a branch; a PING dispatches no event of a kind
C33_HandledInteractionOrder ==
    [][emitted'[1].a.id = 0
          => \A ty \in Handled, ident \in Idents :
                DispatchInteraction(ty, ident)
                   => /\ UNCHANGED <<cache, guild>>
                      /\ InteractionOrder(ty, ident, NamesOf(emitted'))]_vars

C33_Witness ==
    /\ NamesOf(emitted) = <<"raw_socket_create", "on_component",
                            "component_b", "on_interaction",
                            "on_interaction_create">>
    /\ Entry("Channel", 1) \in cache
    /\ Len(guild[1].channels) = 1

(***************************************************************************)
(* C34: every HEARTBEAT the client writes, from the timer loop or in reply *)
(* to a HEARTBEAT of the Gateway, carries session.sequence as it is when   *)
(* the frame is written; the sequence is the number of the last handled    *)
(* frame that carried one (it changes only when such a frame is handled,   *)
(* to that frame's number); a heartbeat the Gateway asked for leaves the   *)
(* ack flag, the heartbeat event and the heartbeat tasks as they were.     *)
(***************************************************************************)
C34_HeartbeatCarriesSequence ==
    [][/\ (sent' # sent /\ sent'.op = "HEARTBEAT") => sent'.d = sequence'
       /\ \A m \in SeqMessages :
              RxFrame(m) => sequence' = IF m.s # 0 THEN m.s ELSE sequence
       /\ sequence' # sequence
              => \E m \in SeqMessages : m.s # 0 /\ RxFrame(m)
       /\ RxFrame(HeartbeatFrame)
              => /\ client # 0 => sent'.op = "HEARTBEAT" /\ sent'.d = sequence'
                 /\ ackEv' = ackEv
                 /\ hbEvent' = hbEvent
                 /\ task' = task
                 /\ delay' = delay
                 /\ \A k \in HbTasks : ts'[k] = ts[k]]_vars

\* a heartbeat the Gateway asked for went out carrying the number 2 of the
\* frame handled last, the ack flag being set
C34_Witness ==
    /\ sent.op = "HEARTBEAT"
    /\ sent.d = 2
    /\ sequence = 2
    /\ ts[MainT].pc = "rx_wait"
    /\ sent.site = ts[MainT].site
    /\ ackEv # "clear"

(***************************************************************************)
(* C35: when the heartbeat interval elapses while run() is inside          *)
(* _reconnect with the transport handle absent (the old one closed, the    *)
(* new one not yet connected) and the heartbeat task not yet cancelled,    *)
(* the heartbeat loop raises nothing and the stop signal stays clear.      *)
(***************************************************************************)
MidReconnect(k) ==
    /\ lockHolder = MainT
    /\ ts[MainT].pc \in RcPcs
    /\ client = 0
    /\ task = k
    /\ ~closingLock

\* C35: an expiry of the heartbeat interval in the middle of run()'s
\* reconnect neither fails the heartbeat task nor sets the stop signal
C35_ExpiryDuringReconnect ==
    [][\A k \in HbTasks :
          MidReconnect(k) /\ HbTimeout(k)
              => ~closingLock' /\ ts'[k].pc # "error"]_vars

(***************************************************************************)
(* C36: whenever the usable signal (__closed) is set, the transport handle *)
(* is present and is the transport opened last, and the signal was set by  *)
(* the task that had completed HELLO and the IDENTIFY / RESUME send on     *)
(* that transport; while a task is in the body of _reconnect the signal is *)
(* clear.                                                                  *)
(***************************************************************************)
InBody(t) == ts[t].pc \in RcPcs \ {"rc_lock"}

UsableOk ==
    /\ closedEv => client # 0 /\ client = opened
    /\ \A t \in Reconnectors : InBody(t) => ~closedEv

\* C36: the usable signal is set only on the newest transport after its
\* handshake, and is clear while a reconnect is under way
C36_UsableMeansHandshaken ==
    [][/\ UsableOk'
       /\ (~closedEv /\ closedEv')
             => /\ client' = client
                /\ \/ ts[MainT].pc = "run_sent"
                   \/ \E t \in Reconnectors :
                         \/ ts[t].pc = "rc_sent" /\ lockHolder = t
                         \/ /\ ts[t].pc = "rc_hello" /\ lockHolder = t
                            /\ sent'.conn = client
                            /\ ts'[t].pc = "cancelled"
       /\ (closedEv /\ closedEv') => client' = client /\ opened' = opened]_vars

\* a reconnect has made the second transport usable
C36_Witness ==
    /\ closedEv
    /\ client = 2
    /\ opened = 2
    /\ lockHolder = NoTask
    /\ ts[MainT].pc \in {"rx_wait", "rx_recv"}

(***************************************************************************)
(* C37: handling INVALID_SESSION clears the ready signal and starts a      *)
(* reconnect that resumes when the payload is truthy and identifies afresh *)
(* when it is false; handling RECONNECT starts a resuming reconnect; the   *)
(* handshake frame such a reconnect writes is RESUME when it resumes and   *)
(* IDENTIFY when it does not.                                              *)
(***************************************************************************)
Reconnecting(resume) ==
    /\ ts'[MainT].pc \in RcPcs
    /\ ts'[MainT].resume = resume

OpcodeReconnects ==
    /\ \A d \in {"true", "false"} :
          RxFrame(InvalidFrame(d))
              => ~readyEv' /\ Reconnecting(d = "true")
    /\ RxFrame(ReconnectFrame) => Reconnecting(TRUE)
    /\ (sent' # sent /\ sent'.site \in {"hs_invalid", "hs_reconnect"})
          => sent'.op = IF ts[MainT].resume THEN "RESUME" ELSE "IDENTIFY"

\* C37: INVALID_SESSION and RECONNECT start the reconnect their payload and
\* opcode call for, whenever they are handled
C37_OpcodeReconnects == [][OpcodeReconnects]_vars

\* the same once a READY has been handled (_ready is assigned)
C37_SteadyOpcodeReconnects ==
    [][readyDict # "unset" => OpcodeReconnects]_vars

(***************************************************************************)
(* C38: every READY sets the ready signal, stores the session id and the   *)
(* resume URL of its payload and dispatches on_ready once; on_start is     *)
(* dispatched by the first READY handled and by no other frame, so once in *)
(* the life of the session.                                                *)
(***************************************************************************)
Dispatched(name) ==
    Cardinality({i \in 1..Len(emitted') : emitted'[i].name = name})

C38_ReadyDispatches ==
    [][/\ RxSession(ReadyFrame)
            => /\ Dispatched("on_ready") = 1
               /\ Dispatched("on_start") = IF started THEN 0 ELSE 1
               /\ readyEv'
               /\ session_id' = rxConn
               /\ resume_url' = "resume"
               /\ started'
       /\ \A m \in ReadyMessages \ {ReadyFrame} :
             RxSession(m) => emitted' = <<>>
       /\ ~RxSession(ReadyFrame) => emitted' \in {emitted, <<>>}
       /\ started => started']_vars

\* a second READY was handled: on_ready alone
C38_Witness ==
    /\ started
    /\ emitted = <<Emit("on_ready", NoArg, NoArg)>>
    /\ readyEv
    /\ session_id # 0

(***************************************************************************)
(* C39: for an update of a user that is not a bot, the `before' passed to  *)
(* VoiceStateUpdate is the state the cache held for the user before the    *)
(* event was applied to it.                                                *)
(***************************************************************************)
NonBotEvents == {ev \in RawVoiceEvents : ~IsBot(ev)}

C39_BeforeIsPriorState ==
    [][\A ev \in NonBotEvents :
          OnRawVoiceStateUpdate(ev, NoVoice)
              => emitted'[1] = Emit("VoiceStateUpdate", cache[ev.user_id],
                                    PlacedState(ev))]_vars

(***************************************************************************)
(* C40: one raw update dispatches VoiceStateUpdate exactly once.  For a    *)
(* user that is not a bot VoiceUserJoin follows exactly when the user had  *)
(* no state before and has one now, VoiceUserLeave exactly when the user   *)
(* had a state and has none now, VoiceUserMute / Deafen / Move only when   *)
(* both states exist and differ in the field, and never both a join and a  *)
(* leave; for a bot none of the five follows.                              *)
(***************************************************************************)
Emits(name) ==
    Cardinality({i \in 1..Len(emitted') : emitted'[i].name = name})

FollowUpNames ==
    {"VoiceUserJoin", "VoiceUserLeave", "VoiceUserMute", "VoiceUserDeafen",
     "VoiceUserMove"}

VoiceDispatchOk(ev) ==
    LET prior == cache[ev.user_id]
        new == PlacedState(ev)
        both == prior # NoVoice /\ new # NoVoice
    IN /\ Emits("VoiceStateUpdate") = 1
       /\ IF IsBot(ev)
          THEN \A n \in FollowUpNames : Emits(n) = 0
          ELSE /\ Emits("VoiceUserJoin") =
                     IF prior = NoVoice /\ new # NoVoice THEN 1 ELSE 0
               /\ Emits("VoiceUserLeave") =
                     IF prior # NoVoice /\ new = NoVoice THEN 1 ELSE 0
               /\ Emits("VoiceUserMute") > 0
                     => both /\ prior.mute # new.mute
               /\ Emits("VoiceUserDeafen") > 0
                     => both /\ prior.deaf # new.deaf
               /\ Emits("VoiceUserMove") > 0
                     => both /\ prior.channel # new.channel
               /\ Emits("VoiceUserJoin") + Emits("VoiceUserLeave") <= 1

C40_VoiceDispatches ==
    [][\A ev \in RawVoiceEvents, vc \in BotVoiceStates :
          OnRawVoiceStateUpdate(ev, vc) => VoiceDispatchOk(ev)]_vars
====
